---- MODULE Spec2Model ----
(***************************************************************************)
(* A model of deobfuscator.py: the deobfuscation pipeline                  *)
(* (deobfuscate_source and its passes) and the dynamic-rules extractor.    *)
(*                                                                         *)
(* Text is a sequence of one-character strings.  Every regular expression  *)
(* of the source is written down as a pattern (a sequence of nodes) and    *)
(* run by one backtracking matcher, Match, that follows the priorities of  *)
(* Python's re module: greedy or lazy repetition, ordered alternatives,    *)
(* capture groups, back references, word boundaries, leftmost match.       *)
(***************************************************************************)
EXTENDS Integers, Sequences, FiniteSets, TLC

(***************************************************************************)
(* Characters and character classes.                                       *)
(***************************************************************************)
Lower ==
    {"a","b","c","d","e","f","g","h","i","j","k","l","m",
     "n","o","p","q","r","s","t","u","v","w","x","y","z"}

Upper ==
    {"A","B","C","D","E","F","G","H","I","J","K","L","M",
     "N","O","P","Q","R","S","T","U","V","W","X","Y","Z"}

Digit ==
    {"0","1","2","3","4","5","6","7","8","9"}

\* [a-zA-Z0-9_] and \w (the same set on ASCII text)
Word ==
    Lower \cup Upper \cup Digit \cup {"_"}

\* \s
Space ==
    {" ", "\t", "\n", "\r", "\f"}

(***************************************************************************)
(* Pattern nodes.                                                          *)
(*   set  : a character class with a repetition count min..max (max = -1   *)
(*          is unbounded), greedy or lazy; neg complements the class       *)
(*   open / close : the bounds of capture group g                          *)
(*   ref  : a back reference to group g                                    *)
(*   wb   : a word boundary                                                *)
(*   body : (?:\\\\\"|[^\"])* , the body of a double-quoted literal          *)
(***************************************************************************)
Rep(cs, neg, min, max, lazy) ==
    [k |-> "set", cs |-> cs, neg |-> neg, min |-> min, max |-> max, lazy |-> lazy]

Lit(c) ==
    Rep({c}, FALSE, 1, 1, FALSE)

One(cs) ==
    Rep(cs, FALSE, 1, 1, FALSE)

NotOne(cs) ==
    Rep(cs, TRUE, 1, 1, FALSE)

Star(cs) ==
    Rep(cs, FALSE, 0, -1, FALSE)

Plus(cs) ==
    Rep(cs, FALSE, 1, -1, FALSE)

Opt(cs) ==
    Rep(cs, FALSE, 0, 1, FALSE)

NotStar(cs) ==
    Rep(cs, TRUE, 0, -1, FALSE)

NotPlus(cs) ==
    Rep(cs, TRUE, 1, -1, FALSE)

NotPlusLazy(cs) ==
    Rep(cs, TRUE, 1, -1, TRUE)

\* [\s\S]+? and [\s\S]*? : any character, lazily
AnyPlusLazy ==
    Rep({}, TRUE, 1, -1, TRUE)

AnyStarLazy ==
    Rep({}, TRUE, 0, -1, TRUE)

Open(g) ==
    [k |-> "open", g |-> g]

Close(g) ==
    [k |-> "close", g |-> g]

Ref(g) ==
    [k |-> "ref", g |-> g]

WordBoundary ==
    [k |-> "wb"]

QuotedBody ==
    [k |-> "body"]

\* the pattern that matches the characters of s literally (re.escape)
Lits(s) ==
    <<[k |-> "lits", s |-> s]>>

(***************************************************************************)
(* The matcher.  AllMatches(re, lo, hi, t, i, caps) lists every way the    *)
(* nodes re[lo..hi] match text t from index i (1-based, the next character *)
(* to consume), in the order a backtracking matcher tries them: a greedy   *)
(* repetition its longest count first, a lazy one its shortest first, the  *)
(* alternatives left to right.  Each entry is [end, caps]: the index after *)
(* the match and the <<start, end>> index pairs of the capture groups.     *)
(* Python's re returns the first entry.  The node range is halved at each  *)
(* step, which keeps the nesting of the evaluation shallow.                *)
(***************************************************************************)
NoMatch ==
    [ok |-> FALSE, end |-> 0, caps |-> <<>>]

NoCaps ==
    [g \in 1..3 |-> <<0, 0>>]

InClass(c, n) ==
    IF n.neg THEN c \notin n.cs ELSE c \in n.cs

SetMin(S) ==
    CHOOSE x \in S : \A y \in S : x <= y

SetMax(S) ==
    CHOOSE x \in S : \A y \in S : x >= y

\* how many characters of t from index i on lie in the class of n, n.max at most
Run(n, t, i) ==
    LET left == Len(t) - i + 1
        limit == IF n.max = -1 \/ n.max > left THEN left ELSE n.max
        stop == {k \in 1..limit : ~InClass(t[i + k - 1], n)}
    IN  IF stop = {} THEN limit ELSE SetMin(stop) - 1

IsWordAt(t, i) ==
    i >= 1 /\ i <= Len(t) /\ t[i] \in Word

\* the text of group g of match m
Group(t, m, g) ==
    SubSeq(t, m.caps[g][1], m.caps[g][2] - 1)

\* the concatenation of the sequences ss[1], ss[2], ...
Flatten(ss) ==
    LET before(j) == Cardinality(UNION {{x} \X (1..Len(ss[x])) : x \in 1..(j - 1)})
        total == before(Len(ss) + 1)
        owner(k) == SetMax({j \in 1..Len(ss) : before(j) < k})
    IN  [k \in 1..total |-> ss[owner(k)][k - before(owner(k))]] \o <<>>

\* (?:\\\\\"|[^\"])* from index i: a repetition of "two backslashes and a
\* quote" (tried first) or "one character that is no quote".  Every index up
\* to the first quote that is not passed together with two backslashes
\* before it can end the repetition, and backtracking tries them longest
\* first.  BodyEnd is that quote's index (Len(t) + 1 without one).
BodyEnd(t, i) ==
    LET stops == {x \in i..Len(t) :
                     t[x] = "\"" /\ ~(x - 2 >= i /\ t[x - 2] = "\\" /\ t[x - 1] = "\\")}
    IN  IF stops = {} THEN Len(t) + 1 ELSE SetMin(stops)

\* one node
NodeMatches(n, t, i, caps) ==
    CASE n.k = "set" ->
           LET run == Run(n, t, i)
           IN  [j \in 1..(run - n.min + 1) |->
                   [end |-> i + (IF n.lazy THEN n.min + j - 1 ELSE run - j + 1),
                    caps |-> caps]] \o <<>>
      [] n.k = "lits" ->
           IF i + Len(n.s) - 1 <= Len(t) /\ SubSeq(t, i, i + Len(n.s) - 1) = n.s
           THEN <<[end |-> i + Len(n.s), caps |-> caps]>>
           ELSE <<>>
      [] n.k = "open" ->
           <<[end |-> i, caps |-> [caps EXCEPT ![n.g] = <<i, 0>>]]>>
      [] n.k = "close" ->
           <<[end |-> i, caps |-> [caps EXCEPT ![n.g] = <<caps[n.g][1], i>>]]>>
      [] n.k = "ref" ->
           LET s == SubSeq(t, caps[n.g][1], caps[n.g][2] - 1)
           IN  IF i + Len(s) - 1 <= Len(t) /\ SubSeq(t, i, i + Len(s) - 1) = s
               THEN <<[end |-> i + Len(s), caps |-> caps]>>
               ELSE <<>>
      [] n.k = "wb" ->
           IF IsWordAt(t, i - 1) # IsWordAt(t, i)
           THEN <<[end |-> i, caps |-> caps]>>
           ELSE <<>>
      [] n.k = "body" ->
           LET end == BodyEnd(t, i)
           IN  [j \in 1..(end - i + 1) |-> [end |-> end - j + 1, caps |-> caps]] \o <<>>

RECURSIVE AllMatches(_, _, _, _, _, _)
RECURSIVE Continue(_, _, _, _, _)
\* nodes lo..hi of re after each match of the nodes before them
Continue(re, lo, hi, t, left) ==
    Flatten([j \in 1..Len(left) |-> AllMatches(re, lo, hi, t, left[j].end, left[j].caps)]
            \o <<>>)

AllMatches(re, lo, hi, t, i, caps) ==
    IF lo > hi THEN <<[end |-> i, caps |-> caps]>>
    ELSE IF lo = hi THEN NodeMatches(re[lo], t, i, caps)
    ELSE Continue(re, (lo + hi) \div 2 + 1, hi, t,
                  AllMatches(re, lo, (lo + hi) \div 2, t, i, caps))

\* the first match in backtracking order
First(all) ==
    IF all = <<>> THEN NoMatch
    ELSE [ok |-> TRUE, end |-> all[1].end, caps |-> all[1].caps]

\* pattern.match at index i
Match(re, t, i, caps) ==
    First(AllMatches(re, 1, Len(re), t, i, caps))

\* the leftmost of the matches tried at pos + 1, pos + 2, ...
Leftmost(tried, pos) ==
    LET starts == {k \in 1..Len(tried) : tried[k].ok}
    IN  IF starts = {} THEN [ok |-> FALSE, start |-> 0, end |-> 0, caps |-> <<>>]
        ELSE [ok |-> TRUE, start |-> pos + SetMin(starts),
              end |-> tried[SetMin(starts)].end, caps |-> tried[SetMin(starts)].caps]

\* pattern.search(t, pos): the leftmost match starting at offset pos or later
\* (pos is 0-based as in Python), with start the index of its first character
Search(re, t, pos) ==
    Leftmost([k \in 1..(Len(t) + 1 - pos) |-> Match(re, t, pos + k, NoCaps)] \o <<>>, pos)

\* pattern.finditer(t): the successive non-overlapping matches, left to right
\* (no pattern of the program matches the empty string)
RECURSIVE FindIterFrom(_, _, _)
RECURSIVE FindIterAfter(_, _, _)
FindIterAfter(re, t, m) ==
    IF ~m.ok THEN <<>> ELSE <<m>> \o FindIterFrom(re, t, m.end - 1)

FindIterFrom(re, t, pos) ==
    FindIterAfter(re, t, Search(re, t, pos))

FindIter(re, t) ==
    FindIterFrom(re, t, 0)

\* the text t with each match ms[j] replaced by reps[j]
RECURSIVE Splice(_, _, _, _, _)
Splice(t, ms, reps, j, from) ==
    IF j > Len(ms) THEN SubSeq(t, from, Len(t))
    ELSE SubSeq(t, from, ms[j].start - 1) \o reps[j]
         \o Splice(t, ms, reps, j + 1, ms[j].end)

\* (\w+)\s*\?\s*\1\s*:\s*(\w+)
TernaryPattern ==
    <<Open(1), Plus(Word), Close(1), Star(Space), Lit("?"), Star(Space), Ref(1),
      Star(Space), Lit(":"), Star(Space), Open(2), Plus(Word), Close(2)>>

\* pattern.sub(r"\1 || \2", t) over the matches ms
SubTernary(t, ms) ==
    Splice(t, ms,
           [j \in 1..Len(ms) |->
               Group(t, ms[j], 1) \o <<" ", "|", "|", " ">> \o Group(t, ms[j], 2)] \o <<>>,
           1, 1)

_simplify_expressions(t) ==
    SubTernary(t, FindIter(TernaryPattern, t))

\* ([a-zA-Z0-9_]+)\["([a-zA-Z_][a-zA-Z0-9_]*)"\]
BracketPattern ==
    <<Open(1), Plus(Word), Close(1), Lit("["), Lit("\""), Open(2),
      One(Lower \cup Upper \cup {"_"}), Star(Word), Close(2), Lit("\""), Lit("]")>>

\* pattern.sub(r"\1.\2", t) over the matches ms
SubBracket(t, ms) ==
    Splice(t, ms,
           [j \in 1..Len(ms) |-> Group(t, ms[j], 1) \o <<".">> \o Group(t, ms[j], 2)]
           \o <<>>,
           1, 1)

_convert_bracket_to_dot_notation(t) ==
    SubBracket(t, FindIter(BracketPattern, t))

(***************************************************************************)
(* _extract_string_array: the string pool declaration.                     *)
(***************************************************************************)
\* const\s+([a-zA-Z0-9_]+)\s*=\s*\[
start_pattern ==
    Lits(<<"c","o","n","s","t">>) \o
    <<Plus(Space), Open(1), Plus(Word), Close(1), Star(Space), Lit("="),
      Star(Space), Lit("[")>>

\* the manual scan for the closing delimiter, from index i with level 1:
\* the level after the character at index j is 1 + the opening - the closing
\* delimiters seen in i..j, and the scan stops at the first j where it is 0;
\* -1 (content_end_index) when the text ends first
DelimiterLevel(t, i, j, open, close) ==
    1 + Cardinality({x \in i..j : t[x] = open}) - Cardinality({x \in i..j : t[x] = close})

ScanClosing(t, i, open, close) ==
    LET closed == {j \in i..Len(t) : DelimiterLevel(t, i, j, open, close) = 0}
    IN  IF closed = {} THEN -1 ELSE SetMin(closed)

\* "((?:\\\\\"|[^\"])*)"
string_literal_pattern ==
    <<Lit("\""), Open(1),
      QuotedBody, Close(1), Lit("\"")>>

\* group 1 of every match of ms
Group1s(t, ms) ==
    [j \in 1..Len(ms) |-> Group(t, ms[j], 1)] \o <<>>

\* findall: group 1 of every match
FindAll1(re, t) ==
    Group1s(t, FindIter(re, t))

\* match.groups() of every match of ms
GroupsOf(t, ms) ==
    [j \in 1..Len(ms) |-> [g \in 1..3 |-> Group(t, ms[j], g)] \o <<>>] \o <<>>

\* the groups of every match of finditer
FindGroups(re, t) ==
    GroupsOf(t, FindIter(re, t))

\* the declaration matched: None when its bracket is never closed
StringArrayAt(source_code, match) ==
    LET content_end_index == ScanClosing(source_code, match.end, "[", "]")
    IN  IF ~match.ok THEN [found |-> FALSE, array_name |-> <<>>, strings |-> <<>>]
        ELSE IF content_end_index = -1
        THEN [found |-> FALSE, array_name |-> <<>>, strings |-> <<>>]
        ELSE [found |-> TRUE,
              array_name |-> Group(source_code, match, 1),
              strings |-> FindAll1(string_literal_pattern,
                                   SubSeq(source_code, match.end, content_end_index - 1))]

\* None, or the array name and its string elements
_extract_string_array(source_code) ==
    StringArrayAt(source_code, Search(start_pattern, source_code, 0))

(***************************************************************************)
(* _apply_array_shuffling: the pool rotation.                              *)
(***************************************************************************)
\* \s*\(\s*function\s*\(\s*\w+\s*,\s*(\w+)\s*\)\s*\{[\s\S]+?
\* while\s*\(--\w+\)\s*\{\s*[\s\S]+?\.push\([\s\S]+?\.shift\(\)\);\s*\}\s*;?\s*\}\s*\)
\* \s*\([^,]+?,\s*(\d+)\s*\);
shuffle_pattern ==
    <<Star(Space), Lit("("), Star(Space)>> \o
    Lits(<<"f","u","n","c","t","i","o","n">>) \o
    <<Star(Space), Lit("("), Star(Space), Plus(Word), Star(Space), Lit(","),
      Star(Space), Open(1), Plus(Word), Close(1), Star(Space), Lit(")"),
      Star(Space), Lit("{"), AnyPlusLazy>> \o
    Lits(<<"w","h","i","l","e">>) \o
    <<Star(Space), Lit("("), Lit("-"), Lit("-"), Plus(Word), Lit(")"),
      Star(Space), Lit("{"), Star(Space), AnyPlusLazy>> \o
    Lits(<<".","p","u","s","h","(">>) \o
    <<AnyPlusLazy>> \o
    Lits(<<".","s","h","i","f","t","(",")",")",";">>) \o
    <<Star(Space), Lit("}"), Star(Space), Opt({";"}), Star(Space), Lit("}"),
      Star(Space), Lit(")"), Star(Space), Lit("("), NotPlusLazy({","}), Lit(","),
      Star(Space), Open(2), Plus(Digit), Close(2), Star(Space), Lit(")"), Lit(";")>>

DigitValue(c) ==
    CASE c = "0" -> 0 [] c = "1" -> 1 [] c = "2" -> 2 [] c = "3" -> 3
      [] c = "4" -> 4 [] c = "5" -> 5 [] c = "6" -> 6 [] c = "7" -> 7
      [] c = "8" -> 8 [] c = "9" -> 9

\* int() of a run of decimal digits
RECURSIVE DigitsToInt(_)
DigitsToInt(s) ==
    IF s = <<>> THEN 0
    ELSE 10 * DigitsToInt(SubSeq(s, 1, Len(s) - 1)) + DigitValue(s[Len(s)])

\* the rotation the other way: strings.insert(0, strings.pop())
RECURSIVE RotateRight(_, _)
RotateRight(strings, shuffle_amount) ==
    IF shuffle_amount = 0 \/ strings = <<>> THEN strings
    ELSE RotateRight(<<strings[Len(strings)]>> \o SubSeq(strings, 1, Len(strings) - 1),
                     shuffle_amount - 1)

\* for _ in range(shuffle_amount): strings.append(strings.pop(0))
\* pop(0) of an empty list raises IndexError, which the except clause
\* catches: the loop is abandoned and the list stays as it is
RECURSIVE Rotate(_, _)
Rotate(strings, shuffle_amount) ==
    IF shuffle_amount = 0 \/ strings = <<>> THEN strings
    ELSE Rotate(Append(Tail(strings), Head(strings)), shuffle_amount - 1)

\* the rotation by the amount the shuffler match holds, if there is a match
ShuffleBy(strings, source_code, match) ==
    IF match.ok
    THEN Rotate(strings, DigitsToInt(Group(source_code, match, 2)))
    ELSE strings

_apply_array_shuffling(strings, source_code) ==
    ShuffleBy(strings, source_code, Search(shuffle_pattern, source_code, 0))

(***************************************************************************)
(* Character codes, base64 and the RC4 cipher of _replace_decrypted_strings*)
(* (base64.b64decode, _rc4_cipher) and json.dumps.  A decoded string is a  *)
(* sequence of byte values 0..255 (latin-1 code points).                   *)
(***************************************************************************)
\* the characters with codes 32..126, in code order ("backtick" stands for
\* the character of code 96, which a TLA+ string cannot hold)
Printable ==
    <<" ","!","\"","#","$","%","&","'","(",")","*","+",",","-",".","/",
      "0","1","2","3","4","5","6","7","8","9",":",";","<","=",">","?",
      "@","A","B","C","D","E","F","G","H","I","J","K","L","M","N","O",
      "P","Q","R","S","T","U","V","W","X","Y","Z","[","\\","]","^","_",
      "backtick","a","b","c","d","e","f","g","h","i","j","k","l","m","n","o",
      "p","q","r","s","t","u","v","w","x","y","z","{","|","}","~">>

\* key.encode('latin-1'), one character
Ord(c) ==
    CASE c = "\t" -> 9 [] c = "\n" -> 10 [] c = "\f" -> 12 [] c = "\r" -> 13
      [] OTHER -> 31 + (CHOOSE k \in 1..Len(Printable) : Printable[k] = c)

Chr(b) ==
    Printable[b - 31]

HexDigits ==
    <<"0","1","2","3","4","5","6","7","8","9","a","b","c","d","e","f">>

\* json.dumps(s) (ensure_ascii): the quoted, escaped literal of byte string s
JsonEscape(b) ==
    CASE b = 34 -> <<"\\", "\"">>
      [] b = 92 -> <<"\\", "\\">>
      [] b = 10 -> <<"\\", "n">>
      [] b = 13 -> <<"\\", "r">>
      [] b = 9 -> <<"\\", "t">>
      [] b = 12 -> <<"\\", "f">>
      [] b = 8 -> <<"\\", "b">>
      [] b >= 32 /\ b <= 126 /\ b # 34 /\ b # 92 -> <<Chr(b)>>
      [] OTHER -> <<"\\", "u", "0", "0", HexDigits[(b \div 16) + 1], HexDigits[(b % 16) + 1]>>

JsonDumps(bytes) ==
    <<"\"">> \o Flatten([k \in 1..Len(bytes) |-> JsonEscape(bytes[k])] \o <<>>) \o <<"\"">>

\* the base64 alphabet, in value order
B64Alphabet ==
    <<"A","B","C","D","E","F","G","H","I","J","K","L","M","N","O","P",
      "Q","R","S","T","U","V","W","X","Y","Z","a","b","c","d","e","f",
      "g","h","i","j","k","l","m","n","o","p","q","r","s","t","u","v",
      "w","x","y","z","0","1","2","3","4","5","6","7","8","9","+","/">>

B64Value(c) ==
    (CHOOSE k \in 1..64 : B64Alphabet[k] = c) - 1

IsB64(c) ==
    \E k \in 1..64 : B64Alphabet[k] = c

\* base64.b64decode(s), not validating: characters outside the alphabet are
\* skipped, a pad that completes a quad ends the decoding, and a quad left
\* incomplete at the end is an error (binascii.Error)
RECURSIVE B64Scan(_, _, _)
B64Scan(s, k, st) ==
    IF k > Len(s)
    THEN [ok |-> st.quad_pos = 0, bytes |-> st.bytes]
    ELSE LET c == s[k]
         IN  IF c = "="
             THEN IF st.quad_pos >= 2 /\ st.quad_pos + st.pads + 1 >= 4
                  THEN [ok |-> TRUE, bytes |-> st.bytes]
                  ELSE B64Scan(s, k + 1,
                               IF st.quad_pos >= 2
                               THEN [st EXCEPT !.pads = st.pads + 1]
                               ELSE st)
             ELSE IF ~IsB64(c) THEN B64Scan(s, k + 1, st)
             ELSE LET v == B64Value(c)
                  IN  B64Scan(s, k + 1,
                        CASE st.quad_pos = 0 ->
                               [quad_pos |-> 1, leftchar |-> v, pads |-> 0,
                                bytes |-> st.bytes]
                          [] st.quad_pos = 1 ->
                               [quad_pos |-> 2, leftchar |-> v % 16, pads |-> 0,
                                bytes |-> Append(st.bytes, st.leftchar * 4 + v \div 16)]
                          [] st.quad_pos = 2 ->
                               [quad_pos |-> 3, leftchar |-> v % 4, pads |-> 0,
                                bytes |-> Append(st.bytes, st.leftchar * 16 + v \div 4)]
                          [] st.quad_pos = 3 ->
                               [quad_pos |-> 0, leftchar |-> 0, pads |-> 0,
                                bytes |-> Append(st.bytes, st.leftchar * 64 + v)])

b64decode(s) ==
    B64Scan(s, 1, [quad_pos |-> 0, leftchar |-> 0, pads |-> 0, bytes |-> <<>>])

\* byte ^ k
RECURSIVE Xor(_, _)
Xor(a, b) ==
    IF a = 0 /\ b = 0 THEN 0
    ELSE 2 * Xor(a \div 2, b \div 2) + (IF a % 2 = b % 2 THEN 0 ELSE 1)

\* the table s = list(range(256)) is kept as a sequence: s[i] of the code is
\* At(s, i)
At(s, i) ==
    s[i + 1]

Swap(s, i, j) ==
    [s EXCEPT ![i + 1] = s[j + 1], ![j + 1] = s[i + 1]]

\* the key schedule, for i in range(lo, hi + 1), on st = [s, j]; the range
\* is halved at each step, which keeps the nesting of the evaluation shallow
RECURSIVE KeySchedule(_, _, _, _)
KeySchedule(st, key_bytes, lo, hi) ==
    IF lo = hi
    THEN LET j == (st.j + At(st.s, lo) + key_bytes[(lo % Len(key_bytes)) + 1]) % 256
         IN  [s |-> Swap(st.s, lo, j), j |-> j]
    ELSE LET mid == (lo + hi) \div 2
             half == KeySchedule(st, key_bytes, lo, mid)
         IN  \* (the test has the first half computed before the second starts)
             IF half.j \in 0..255
             THEN KeySchedule(half, key_bytes, mid + 1, hi)
             ELSE half

\* the keystream pass over data[n..], on st = [s, i, j, res]
RECURSIVE KeyStream(_, _, _)
KeyStream(st, data, n) ==
    IF n > Len(data) THEN st.res
    ELSE LET i == (st.i + 1) % 256
             j == (st.j + At(st.s, i)) % 256
             s == Swap(st.s, i, j)
             k == At(s, (At(s, i) + At(s, j)) % 256)
         IN  KeyStream([s |-> s, i |-> i, j |-> j,
                        res |-> Append(st.res, Xor(data[n], k))], data, n + 1)

\* _rc4_cipher(data, key), key a text; an empty key divides by zero, which
\* decrypt's except clause turns into None (ok = FALSE)
_rc4_cipher(data, key) ==
    LET key_bytes == [k \in 1..Len(key) |-> Ord(key[k])] \o <<>>
        scheduled == KeySchedule([s |-> [x \in 1..256 |-> x - 1] \o <<>>, j |-> 0],
                                 key_bytes, 0, 255)
    IN  IF key = <<>> THEN [ok |-> FALSE, bytes |-> <<>>]
        ELSE [ok |-> TRUE,
              bytes |-> KeyStream([s |-> scheduled.s, i |-> 0, j |-> 0, res |-> <<>>],
                                  data, 1)]

(***************************************************************************)
(* int(text): optional surrounding whitespace, an optional sign, decimal   *)
(* digits with single underscores between them; anything else raises       *)
(* ValueError (ok = FALSE).                                                *)
(***************************************************************************)
int(text) ==
    LET solid == {k \in 1..Len(text) : text[k] \notin Space}
        stripped == IF solid = {} THEN <<>>
                    ELSE SubSeq(text, SetMin(solid), SetMax(solid))
        signed == stripped # <<>> /\ stripped[1] \in {"+", "-"}
        digits == IF signed THEN Tail(stripped) ELSE stripped
        valid == /\ digits # <<>>
                 /\ \A k \in 1..Len(digits) : digits[k] \in Digit \cup {"_"}
                 /\ digits[1] # "_" /\ digits[Len(digits)] # "_"
                 /\ \A k \in 1..(Len(digits) - 1) : ~(digits[k] = "_" /\ digits[k + 1] = "_")
        value == DigitsToInt(SelectSeq(digits, LAMBDA c : c # "_"))
    IN  IF ~valid THEN [ok |-> FALSE, value |-> 0]
        ELSE [ok |-> TRUE, value |-> IF signed /\ stripped[1] = "-" THEN 0 - value ELSE value]

(***************************************************************************)
(* _extract_decryption_functions: the wrapper functions (the chain map).   *)
(***************************************************************************)
\* function\s+([a-zA-Z0-9_]+)\s*\([^)]+\)\s*\{[\s\S]*?
\* return\s+([a-zA-Z0-9_]+)\([^,]+?-\s*(-?\d+)[^)]*\)[\s\S]*?\}
wrapper_pattern ==
    Lits(<<"f","u","n","c","t","i","o","n">>) \o
    <<Plus(Space), Open(1), Plus(Word), Close(1), Star(Space), Lit("("),
      NotPlus({")"}), Lit(")"), Star(Space), Lit("{"), AnyStarLazy>> \o
    Lits(<<"r","e","t","u","r","n">>) \o
    <<Plus(Space), Open(2), Plus(Word), Close(2), Lit("("), NotPlusLazy({","}),
      Lit("-"), Star(Space), Open(3), Opt({"-"}), Plus(Digit), Close(3),
      NotStar({")"}), Lit(")"), AnyStarLazy, Lit("}")>>

\* function_map after the loop over the matches (found holds their groups)
FunctionMapOf(found) ==
    LET names == {found[j][1] : j \in 1..Len(found)}
        last(name) == SetMax({j \in 1..Len(found) : found[j][1] = name})
    IN  [is_none |-> found = <<>>,
         entries |-> [name \in names |->
                        [calls |-> found[last(name)][2],
                         offset |-> int(found[last(name)][3]).value]]]

\* the chain map: is_none for None (no wrapper found), else entries maps
\* each wrapper name to its last match's [calls, offset]
_extract_decryption_functions(source_code) ==
    FunctionMapOf(FindGroups(wrapper_pattern, source_code))

(***************************************************************************)
(* _replace_decrypted_strings: the call sites.                             *)
(***************************************************************************)
\* \b([a-zA-Z0-9_]+)\(([^,]+),\s*"([^"]*)"\)
call_pattern ==
    <<WordBoundary, Open(1), Plus(Word), Close(1), Lit("("), Open(2),
      NotPlus({","}), Close(2), Lit(","), Star(Space), Lit("\""), Open(3),
      NotStar({"\""}), Close(3), Lit("\""), Lit(")")>>

(***************************************************************************)
(* _extract_operator_map and _replace_operator_map_uses.                   *)
(***************************************************************************)
\* const\s+([a-zA-Z0-9_]+)\s*=\s*\{
map_start_pattern ==
    Lits(<<"c","o","n","s","t">>) \o
    <<Plus(Space), Open(1), Plus(Word), Close(1), Star(Space), Lit("="),
      Star(Space), Lit("{")>>

\* ([a-zA-Z0-9_]+)\s*:\s*function\([^)]+\)\s*\{\s*return\s+[^ ]+\s*
\* ([+\-%*&|/])\s*[^;]+;\s*\}
binop_pattern ==
    <<Open(1), Plus(Word), Close(1), Star(Space), Lit(":"), Star(Space)>> \o
    Lits(<<"f","u","n","c","t","i","o","n","(">>) \o
    <<NotPlus({")"}), Lit(")"), Star(Space), Lit("{"), Star(Space)>> \o
    Lits(<<"r","e","t","u","r","n">>) \o
    <<Plus(Space), NotPlus({" "}), Star(Space), Open(2),
      One({"+", "-", "%", "*", "&", "|", "/"}), Close(2), Star(Space),
      NotPlus({";"}), Lit(";"), Star(Space), Lit("}")>>

\* ([a-zA-Z0-9_]+)\s*:\s*"((?:\\\\\"|[^\"])*)"
str_pattern ==
    <<Open(1), Plus(Word), Close(1), Star(Space), Lit(":"), Star(Space), Lit("\""),
      Open(2), QuotedBody, Close(2), Lit("\"")>>

\* the elements of sequence s without repetition, in order of first occurrence
Distinct(s) ==
    SelectSeq([k \in 1..Len(s) |-> IF \E x \in 1..(k - 1) : s[x] = s[k]
                                   THEN <<>> ELSE <<s[k]>>] \o <<>>,
              LAMBDA e : e # <<>>)

\* op_map after the two finditer loops: the keys in dict order and the entry
\* of each key (a string entry replaces a binary one of the same key); None
\* when there is no entry
OperatorMapFrom(map_name, bins, strs) ==
    LET keys == Distinct([j \in 1..Len(bins) |-> bins[j][1]] \o
                         [j \in 1..Len(strs) |-> strs[j][1]])
        entry(key) ==
            IF \E j \in 1..Len(strs) : strs[j][1] = key
            THEN [type |-> "string", op |-> "",
                  value |-> strs[SetMax({j \in 1..Len(strs) : strs[j][1] = key})][2]]
            ELSE [type |-> "binary", value |-> <<>>,
                  op |-> bins[SetMax({j \in 1..Len(bins) : bins[j][1] = key})][2][1]]
    IN  IF keys = <<>>
        THEN [found |-> FALSE, map_name |-> <<>>, keys |-> <<>>, entries |-> <<>>]
        ELSE [found |-> TRUE,
              map_name |-> map_name,
              keys |-> [j \in 1..Len(keys) |-> keys[j][1]] \o <<>>,
              entries |-> [j \in 1..Len(keys) |-> entry(keys[j][1])] \o <<>>]

\* the object literal body obj_body
OperatorMapIn(map_name, obj_body) ==
    OperatorMapFrom(map_name, FindGroups(binop_pattern, obj_body),
                    FindGroups(str_pattern, obj_body))

\* the declaration matched: None when its brace is never closed
OperatorMapAt(source_code, match) ==
    LET content_end_index == ScanClosing(source_code, match.end, "{", "}")
    IN  IF ~match.ok \/ content_end_index = -1
        THEN [found |-> FALSE, map_name |-> <<>>, keys |-> <<>>, entries |-> <<>>]
        ELSE OperatorMapIn(Group(source_code, match, 1),
                           SubSeq(source_code, match.end, content_end_index - 1))

\* None (found = FALSE), or the map name, the keys and their entries
_extract_operator_map(source_code) ==
    OperatorMapAt(source_code, Search(map_start_pattern, source_code, 0))

\* the replacement template of pattern.sub expanded: \\ is a backslash, \n,
\* \r, \t, \f are the control characters, a backslash before a character
\* that is no letter or digit stays; \u and the other letters are a bad
\* escape (re.error, ok = FALSE)
RECURSIVE ExpandTemplate(_, _)
ExpandTemplate(tpl, k) ==
    IF k > Len(tpl) THEN [ok |-> TRUE, text |-> <<>>]
    ELSE IF tpl[k] # "\\" \/ k = Len(tpl)
    THEN LET r == ExpandTemplate(tpl, k + 1)
         IN  [ok |-> r.ok, text |-> <<tpl[k]>> \o r.text]
    ELSE LET c == tpl[k + 1]
             r == ExpandTemplate(tpl, k + 2)
             this == CASE c = "\\" -> <<"\\">>
                       [] c = "n" -> <<"\n">>
                       [] c = "r" -> <<"\r">>
                       [] c = "t" -> <<"\t">>
                       [] c = "f" -> <<"\f">>
                       [] OTHER -> <<"\\", c>>
         IN  IF c \in (Lower \cup Upper \cup Digit) \ {"n", "r", "t", "f"}
             THEN [ok |-> FALSE, text |-> <<>>]
             ELSE [ok |-> r.ok, text |-> this \o r.text]

\* the matches ms all replaced by replacement
SpliceConst(t, ms, replacement) ==
    Splice(t, ms, [j \in 1..Len(ms) |-> replacement] \o <<>>, 1, 1)

\* pattern.sub(replacement, text) with the same replacement for every match
SubConst(re, t, replacement) ==
    SpliceConst(t, FindIter(re, t), replacement)

\* map_name.key(arg1, arg2) -> (arg1 op arg2)
BinaryUsePattern(map_name, key) ==
    Lits(map_name) \o <<Lit(".")>> \o Lits(key) \o
    <<Lit("("), Open(1), NotPlusLazy({","}), Close(1), Lit(","), Open(2),
      NotPlusLazy({")"}), Close(2), Lit(")")>>

SpliceBinary(op, t, ms) ==
    Splice(t, ms,
           [j \in 1..Len(ms) |->
               <<"(">> \o Group(t, ms[j], 1) \o <<" ", op, " ">>
               \o Group(t, ms[j], 2) \o <<")">>] \o <<>>,
           1, 1)

SubBinary(map_name, key, op, t) ==
    SpliceBinary(op, t, FindIter(BinaryUsePattern(map_name, key), t))

\* map_name["key"]
StringUsePattern(map_name, key) ==
    Lits(map_name) \o <<Lit("["), Lit("\"")>> \o Lits(key) \o <<Lit("\""), Lit("]")>>

\* the two loops over op_map.items(), from entry k on; ok = FALSE when a
\* replacement template is a bad escape
RECURSIVE ReplaceBinaryUses(_, _, _)
ReplaceBinaryUses(map, t, k) ==
    IF k > Len(map.keys) THEN t
    ELSE ReplaceBinaryUses(map,
             IF map.entries[k].type = "binary"
             THEN SubBinary(map.map_name, map.keys[k], map.entries[k].op, t)
             ELSE t,
             k + 1)

RECURSIVE ReplaceStringUses(_, _, _)
ReplaceStringUses(map, t, k) ==
    IF k > Len(map.keys) THEN [ok |-> TRUE, text |-> t]
    ELSE IF map.entries[k].type # "string" THEN ReplaceStringUses(map, t, k + 1)
    ELSE LET value == map.entries[k].value
             replacement == ExpandTemplate(
                 JsonDumps([x \in 1..Len(value) |-> Ord(value[x])] \o <<>>), 1)
         IN  IF ~replacement.ok THEN [ok |-> FALSE, text |-> t]
             ELSE ReplaceStringUses(map,
                      SubConst(StringUsePattern(map.map_name, map.keys[k]), t,
                               replacement.text),
                      k + 1)

_replace_operator_map_uses(source_code, operator_map_data) ==
    IF ~operator_map_data.found THEN [ok |-> TRUE, text |-> source_code]
    ELSE ReplaceStringUses(operator_map_data,
                           ReplaceBinaryUses(operator_map_data, source_code, 1), 1)

(***************************************************************************)
(* extract_dynamic_rules.  A value that may be None is a record [is_none,  *)
(* value].                                                                 *)
(***************************************************************************)
\* \[\s*([^\]]+?)\s*\]
array_pattern ==
    <<Lit("["), Star(Space), Open(1), NotPlusLazy({"]"}), Close(1), Star(Space),
      Lit("]")>>

\* "([^"]*)"
element_pattern ==
    <<Lit("\""), Open(1), NotStar({"\""}), Close(1), Lit("\"")>>

\* (\w+)\s*([+\-%])\s*(\d+)
binary_op_pattern ==
    <<Open(1), Plus(Word), Close(1), Star(Space), Open(2), One({"+", "-", "%"}),
      Close(2), Star(Space), Open(3), Plus(Digit), Close(3)>>

\* (\d+)\s*%\s*(\d+)
binary_op_pattern_left ==
    <<Open(1), Plus(Digit), Close(1), Star(Space), Lit("%"), Star(Space),
      Open(2), Plus(Digit), Close(2)>>

\* checksum_indexes.append(left_operand % 40)
CHECKSUM_MODULUS ==
    40

None ==
    [is_none |-> TRUE, value |-> <<>>]

Some(v) ==
    [is_none |-> FALSE, value |-> v]

\* str.isdigit
isdigit(text) ==
    text # <<>> /\ \A k \in 1..Len(text) : text[k] \in Digit

\* whether int(text, 16) returns (it raises ValueError otherwise)
IsHexLiteral(text) ==
    LET solid == {k \in 1..Len(text) : text[k] \notin Space}
        stripped == IF solid = {} THEN <<>>
                    ELSE SubSeq(text, SetMin(solid), SetMax(solid))
        signed == stripped # <<>> /\ stripped[1] \in {"+", "-"}
        unsigned == IF signed THEN Tail(stripped) ELSE stripped
        prefixed == Len(unsigned) >= 2 /\ unsigned[1] = "0" /\ unsigned[2] \in {"x", "X"}
        after == IF prefixed THEN SubSeq(unsigned, 3, Len(unsigned)) ELSE unsigned
        digits == IF prefixed /\ after # <<>> /\ after[1] = "_" THEN Tail(after) ELSE after
        hex == Digit \cup {"a","b","c","d","e","f","A","B","C","D","E","F"}
    IN  /\ digits # <<>>
        /\ \A k \in 1..Len(digits) : digits[k] \in hex \cup {"_"}
        /\ digits[1] # "_" /\ digits[Len(digits)] # "_"
        /\ \A k \in 1..(Len(digits) - 1) : ~(digits[k] = "_" /\ digits[k + 1] = "_")

\* the first element of arrays that satisfies test, or None: the value a
\* rule keeps once it is set
FirstOf(arrays, test(_)) ==
    LET hits == {j \in 1..Len(arrays) : test(arrays[j])}
    IN  IF hits = {} THEN None ELSE Some(arrays[SetMin(hits)])

\* checksum_constant after the matches from j on (ops holds their groups)
RECURSIVE SumOperands(_, _)
SumOperands(ops, j) ==
    IF j > Len(ops) THEN 0
    ELSE (IF ops[j][2] = <<"+">> THEN DigitsToInt(ops[j][3])
          ELSE IF ops[j][2] = <<"-">> THEN 0 - DigitsToInt(ops[j][3])
          ELSE 0) + SumOperands(ops, j + 1)

\* sorted(list(S))
RECURSIVE sorted(_)
sorted(S) ==
    IF S = {} THEN <<>> ELSE <<SetMin(S)>> \o sorted(S \ {SetMin(S)})

\* the string elements of each array literal that has some
Elements(contents) ==
    SelectSeq([j \in 1..Len(contents) |-> FindAll1(element_pattern, contents[j])] \o <<>>,
              LAMBDA elements : elements # <<>>)

\* left_operand kept as it is
checksum_index_raw(left_operand) ==
    left_operand

\* left_operand % 40
checksum_index(left_operand) ==
    left_operand % CHECKSUM_MODULUS

\* the rules, from the arrays and the groups of the matches of
\* binary_op_pattern_left and binary_op_pattern
RulesOf(arrays, left, ops) ==
    LET static_param == FirstOf([j \in 1..Len(arrays) |-> arrays[j][1]],
                                LAMBDA e : Len(e) = 32)
        prefix == FirstOf([j \in 1..Len(arrays) |-> arrays[j][1]], isdigit)
        suffix == FirstOf([j \in 1..Len(arrays) |-> arrays[j][Len(arrays[j])]],
                          LAMBDA e : e # <<>> /\ IsHexLiteral(e))
        checksum_indexes ==
            [j \in 1..Len(left) |-> checksum_index(DigitsToInt(left[j][1]))]
    IN  [start |-> prefix,
         end |-> suffix,
         format |-> IF ~prefix.is_none /\ ~suffix.is_none
                    THEN Some(prefix.value \o <<":", "{", "}", ":", "{", ":", "x", "}", ":">>
                              \o suffix.value)
                    ELSE None,
         prefix |-> prefix,
         suffix |-> suffix,
         static_param |-> static_param,
         remove_headers |-> <<<<"u", "s", "e", "r", "_", "i", "d">>>>,
         checksum_indexes |->
             sorted({checksum_indexes[j] : j \in 1..Len(checksum_indexes)}),
         checksum_constant |-> SumOperands(ops, 1)]

extract_dynamic_rules(text) ==
    RulesOf(Elements(FindAll1(array_pattern, text)),
            FindGroups(binary_op_pattern_left, text),
            FindGroups(binary_op_pattern, text))

(***************************************************************************)
(* The state of one run of deobfuscate_source.                             *)
(*   source_code      the input text                                       *)
(*   pc               the statement the run is at                          *)
(*   strings          the string pool                                      *)
(*   function_map     the chain map ([is_none, entries])                   *)
(*   transformed_code the buffer being rewritten (deobfuscated_code after  *)
(*                    the string pass)                                     *)
(*   pos              the scan cursor of _replace_decrypted_strings        *)
(*   match            the call site being examined: its span (start, end   *)
(*                    as Python offsets) and groups                        *)
(*   index, current_func  the locals of decrypt's chain loop               *)
(*   hops             how many times the chain loop body has run for the   *)
(*                    call site being examined                             *)
(*   operator_map_data  the operator map                                   *)
(*   result           the returned text                                    *)
(***************************************************************************)
VARIABLES source_code, pc, strings, function_map, transformed_code, pos,
          match, index, current_func, hops, operator_map_data, result, rules

vars ==
    <<source_code, pc, strings, function_map, transformed_code, pos,
      match, index, current_func, hops, operator_map_data, result, rules>>

\* index = int(index_str) - 410
BIAS ==
    410

\* the chain loop runs at most MaxHops times in the model (a cyclic chain
\* map makes it run forever)
MaxHops ==
    4

NoMap ==
    [is_none |-> TRUE, entries |-> <<>>]

NoCall ==
    [found |-> FALSE, start |-> 0, end |-> 0, func_name |-> <<>>, index_arg |-> <<>>, key_arg |-> <<>>]

NoFunc ==
    [calls |-> <<>>, offset |-> 0]

\* the rules of a text without a match
NoRules ==
    RulesOf(<<>>, <<>>, <<>>)

NoOperatorMap ==
    [found |-> FALSE, map_name |-> <<>>, keys |-> <<>>, entries |-> <<>>]

\* the state before the first statement, for input text
Start(text) ==
    /\ source_code = text
    /\ pc = "extract_string_array"
    /\ strings = <<>>
    /\ function_map = NoMap
    /\ transformed_code = <<>>
    /\ pos = 0
    /\ match = NoCall
    /\ index = 0
    /\ current_func = NoFunc
    /\ hops = 0
    /\ operator_map_data = NoOperatorMap
    /\ result = <<>>
    /\ rules = NoRules

\* the run going on with what was extracted, a pool or none
PoolIsKept(string_array_data) ==
    /\ pc' = "apply_array_shuffling"
    /\ strings' = string_array_data.strings
    /\ UNCHANGED result

\* if not string_array_data: return source_code
PoolIs(string_array_data) ==
    IF ~string_array_data.found
    THEN /\ pc' = "returned"
         /\ result' = source_code
         /\ UNCHANGED strings
    ELSE /\ pc' = "apply_array_shuffling"
         /\ strings' = string_array_data.strings
         /\ UNCHANGED result

\* string_array_data = _extract_string_array(source_code)
ExtractStringArray ==
    /\ pc = "extract_string_array"
    /\ PoolIs(_extract_string_array(source_code))
    /\ UNCHANGED <<rules, source_code, function_map, transformed_code, pos, match, index,
                   current_func, hops, operator_map_data>>

\* strings = _apply_array_shuffling(strings, source_code, array_name)
ApplyArrayShuffling ==
    /\ pc = "apply_array_shuffling"
    /\ strings' = _apply_array_shuffling(strings, source_code)
    /\ pc' = "extract_decryption_functions"
    /\ UNCHANGED <<rules, source_code, function_map, transformed_code, pos, match, index,
                   current_func, hops, operator_map_data, result>>

\* decryption_function_map = _extract_decryption_functions(source_code), and
\* the entry of _replace_decrypted_strings: transformed_code = source_code,
\* pos = 0
ExtractDecryptionFunctions ==
    /\ pc = "extract_decryption_functions"
    /\ function_map' = _extract_decryption_functions(source_code)
    /\ transformed_code' = source_code
    /\ pos' = 0
    /\ pc' = "scan"
    /\ UNCHANGED <<rules, source_code, strings, match, index, current_func, hops,
                   operator_map_data, result>>

\* the span and the groups of match m of call_pattern (found = FALSE: None)
CallAt(code, m) ==
    IF ~m.ok THEN NoCall
    ELSE [found |-> TRUE, start |-> m.start - 1, end |-> m.end - 1,
          func_name |-> Group(code, m, 1),
          index_arg |-> Group(code, m, 2),
          key_arg |-> Group(code, m, 3)]

\* match = call_pattern.search(transformed_code, pos)
NextCall ==
    CallAt(transformed_code, Search(call_pattern, transformed_code, pos))

\* if not match: break
ScanDone ==
    /\ pc = "scan"
    /\ ~NextCall.found
    /\ pc' = "extract_operator_map"
    /\ UNCHANGED <<rules, source_code, strings, function_map, transformed_code, pos,
                   match, index, current_func, hops, operator_map_data, result>>

\* if func_name in function_map ...: function_map is None, and "in" raises
\* TypeError, which nothing catches
RaiseAt(m) ==
    /\ m.found
    /\ function_map.is_none
    /\ match' = m
    /\ pc' = "raised"
    /\ UNCHANGED <<rules, source_code, strings, function_map, transformed_code, pos,
                   index, current_func, hops, operator_map_data, result>>

ScanRaise ==
    pc = "scan" /\ RaiseAt(NextCall)

\* the call site is no decryption call (the test is false), or decrypt
\* returns None at once because int(index_str) raises: pos = match.end()
SkipAt(m) ==
    /\ m.found
    /\ ~function_map.is_none
    /\ \/ ~(m.func_name \in DOMAIN function_map.entries \/ m.func_name = <<"f">>)
       \/ ~int(m.index_arg).ok
    /\ match' = m
    /\ pos' = m.end
    /\ UNCHANGED <<rules, source_code, pc, strings, function_map, transformed_code,
                   index, current_func, hops, operator_map_data, result>>

ScanSkip ==
    pc = "scan" /\ SkipAt(NextCall)

\* decrypt(func_name, index_arg, key_arg) is entered: index = int(index_str)
\* - 410, and current_func = function_map.get(function_name) when the name is
\* in the map
DecryptAt(m) ==
    /\ m.found
    /\ ~function_map.is_none
    /\ m.func_name \in DOMAIN function_map.entries \/ m.func_name = <<"f">>
    /\ int(m.index_arg).ok
    /\ match' = m
    /\ index' = int(m.index_arg).value - BIAS
    /\ hops' = 0
    /\ IF m.func_name \in DOMAIN function_map.entries
       THEN /\ current_func' = function_map.entries[m.func_name]
            /\ pc' = "chain"
       ELSE /\ current_func' = NoFunc
            /\ pc' = "decode"
    /\ UNCHANGED <<rules, source_code, strings, function_map, transformed_code, pos,
                   operator_map_data, result>>

EnterDecrypt ==
    pc = "scan" /\ DecryptAt(NextCall)

\* the body of the loop with index += current_func["offset"]
ChainStepAdding ==
    /\ pc = "chain"
    /\ hops < MaxHops
    /\ index' = index + current_func.offset
    /\ hops' = hops + 1
    /\ LET next_func_name == current_func.calls
       IN  IF next_func_name = <<>> \/ next_func_name \notin DOMAIN function_map.entries
           THEN /\ pc' = "decode"
                /\ UNCHANGED current_func
           ELSE /\ current_func' = function_map.entries[next_func_name]
                /\ UNCHANGED pc
    /\ UNCHANGED <<rules, source_code, strings, function_map, transformed_code, pos, match,
                   operator_map_data, result>>

\* one run of the body of "while current_func:"
ChainStep ==
    /\ pc = "chain"
    /\ hops < MaxHops
    /\ index' = index - current_func.offset
    /\ hops' = hops + 1
    /\ LET next_func_name == current_func.calls
       IN  IF next_func_name = <<>> \/ next_func_name \notin DOMAIN function_map.entries
           THEN /\ pc' = "decode"
                /\ UNCHANGED current_func
           ELSE /\ current_func' = function_map.entries[next_func_name]
                /\ UNCHANGED pc
    /\ UNCHANGED <<rules, source_code, strings, function_map, transformed_code, pos, match,
                   operator_map_data, result>>

\* _rc4_cipher(decoded_bytes, key), unless b64decode raised
Decipher(decoded_bytes, key) ==
    IF ~decoded_bytes.ok THEN [ok |-> FALSE, bytes |-> <<>>]
    ELSE _rc4_cipher(decoded_bytes.bytes, key)

\* the rest of decrypt: None (ok = FALSE) unless 0 <= index < len(strings)
\* and b64decode and _rc4_cipher succeed
Decrypted ==
    IF ~(0 <= index /\ index < Len(strings)) THEN [ok |-> FALSE, bytes |-> <<>>]
    ELSE Decipher(b64decode(strings[index + 1]), match.key_arg)

\* decrypted_value is not None: the call site is replaced by
\* json.dumps(decrypted_value) and the scan restarts, pos = 0
SubstituteBy(decrypted_value) ==
    /\ decrypted_value.ok
    /\ transformed_code' = SubSeq(transformed_code, 1, match.start)
                           \o JsonDumps(decrypted_value.bytes)
                           \o SubSeq(transformed_code, match.end + 1, Len(transformed_code))
    /\ pos' = 0
    /\ pc' = "scan"
    /\ UNCHANGED <<rules, source_code, strings, function_map, match, index, current_func,
                   hops, operator_map_data, result>>

Substitute ==
    pc = "decode" /\ SubstituteBy(Decrypted)

\* decrypted_value is None: pos = match.end()
DecryptFailed ==
    /\ pc = "decode"
    /\ ~Decrypted.ok
    /\ pos' = match.end
    /\ pc' = "scan"
    /\ UNCHANGED <<rules, source_code, strings, function_map, transformed_code, match,
                   index, current_func, hops, operator_map_data, result>>

\* operator_map_data = _extract_operator_map(deobfuscated_code)
ExtractOperatorMap ==
    /\ pc = "extract_operator_map"
    /\ operator_map_data' = _extract_operator_map(transformed_code)
    /\ pc' = "replace_operator_map_uses"
    /\ UNCHANGED <<rules, source_code, strings, function_map, transformed_code, pos, match,
                   index, current_func, hops, result>>

\* deobfuscated_code = _replace_operator_map_uses(deobfuscated_code,
\* operator_map_data); a bad replacement template raises re.error
ReplacedBy(replaced) ==
    /\ transformed_code' = replaced.text
    /\ pc' = IF replaced.ok THEN "simplify_expressions" ELSE "raised"
    /\ UNCHANGED <<rules, source_code, strings, function_map, pos, match, index,
                   current_func, hops, operator_map_data, result>>

ReplaceOperatorMapUses ==
    /\ pc = "replace_operator_map_uses"
    /\ ReplacedBy(_replace_operator_map_uses(transformed_code, operator_map_data))

\* deobfuscated_code = _simplify_expressions(deobfuscated_code)
SimplifyExpressions ==
    /\ pc = "simplify_expressions"
    /\ transformed_code' = _simplify_expressions(transformed_code)
    /\ pc' = "convert_bracket_to_dot_notation"
    /\ UNCHANGED <<rules, source_code, strings, function_map, pos, match, index,
                   current_func, hops, operator_map_data, result>>

\* deobfuscated_code = _convert_bracket_to_dot_notation(deobfuscated_code);
\* return deobfuscated_code
ConvertBracketToDotNotation ==
    /\ pc = "convert_bracket_to_dot_notation"
    /\ transformed_code' = _convert_bracket_to_dot_notation(transformed_code)
    /\ result' = transformed_code'
    /\ pc' = "returned"
    /\ UNCHANGED <<rules, source_code, strings, function_map, pos, match, index,
                   current_func, hops, operator_map_data>>

\* _replace_decrypted_strings
ReplaceDecryptedStrings ==
    \/ ScanDone
    \/ ScanRaise
    \/ ScanSkip
    \/ EnterDecrypt
    \/ ChainStep
    \/ Substitute
    \/ DecryptFailed

\* deobfuscate_source
Next ==
    \/ ExtractStringArray
    \/ ApplyArrayShuffling
    \/ ExtractDecryptionFunctions
    \/ ReplaceDecryptedStrings
    \/ ExtractOperatorMap
    \/ ReplaceOperatorMapUses
    \/ SimplifyExpressions
    \/ ConvertBracketToDotNotation

(***************************************************************************)
(* Input texts of deobfuscate_source: a pool declaration, a shuffler, a    *)
(* wrapper function, call sites and a tail, each present or absent.        *)
(***************************************************************************)
\* const I=["eAlXn0H7"];
PoolOne ==
    <<"c","o","n","s","t"," ","I","=","[","\"","e","A","l","X","n","0","H",
      "7","\"","]",";">>

\* const I=["e","eAlXn0H7"];
PoolTwo ==
    <<"c","o","n","s","t"," ","I","=","[","\"","e","\"",",","\"","e","A",
      "l","X","n","0","H","7","\"","]",";">>

\* const I=["eAlXn0H7";
PoolUnclosed ==
    <<"c","o","n","s","t"," ","I","=","[","\"","e","A","l","X","n","0","H",
      "7","\"",";">>

\* (function(a,n){x;while(--n){a.push(a.shift());}})(I,<N>);
ShufflerHead ==
    <<"(","f","u","n","c","t","i","o","n","(","a",",","n",")","{","x",";",
      "w","h","i","l","e","(","-","-","n",")","{","a",".","p","u","s","h",
      "(","a",".","s","h","i","f","t","(",")",")",";","}","}",")","(","I",
      ",">>

\* function u(W,n){return f(n-5,W)}
WrapperUF ==
    <<"f","u","n","c","t","i","o","n"," ","u","(","W",",","n",")","{","r",
      "e","t","u","r","n"," ","f","(","n","-","5",",","W",")","}">>

\* function u(W,n){return u(n-5,W)}
WrapperUU ==
    <<"f","u","n","c","t","i","o","n"," ","u","(","W",",","n",")","{","r",
      "e","t","u","r","n"," ","u","(","n","-","5",",","W",")","}">>

\* f(410,"key");
CallF410 ==
    <<"f","(","4","1","0",",","\"","k","e","y","\"",")",";">>

\* f(411,"key");
CallF411 ==
    <<"f","(","4","1","1",",","\"","k","e","y","\"",")",";">>

\* f(x,"key");
CallFx ==
    <<"f","(","x",",","\"","k","e","y","\"",")",";">>

\* u(415,"key");
CallU415 ==
    <<"u","(","4","1","5",",","\"","k","e","y","\"",")",";">>

\* g(410,"key");
CallG410 ==
    <<"g","(","4","1","0",",","\"","k","e","y","\"",")",";">>

\* ba?a:c;a["b"]["c"];
TailTernary ==
    <<"b","a","?","a",":","c",";","a","[","\"","b","\"","]","[","\"","c",
      "\"","]",";">>

\* const M={k:"v"};M["k"];
TailMap ==
    <<"c","o","n","s","t"," ","M","=","{","k",":","\"","v","\"","}",";","M",
      "[","\"","k","\"","]",";">>

\* "secret"; : f(410,"key"); with its call replaced
Secret ==
    <<"\"","s","e","c","r","e","t","\"",";">>

\* the decimal digits of n
RECURSIVE DigitsOf(_)
DigitsOf(n) ==
    IF n < 10 THEN <<CHOOSE c \in Digit : DigitValue(c) = n>>
    ELSE DigitsOf(n \div 10) \o DigitsOf(n % 10)

Shuffler(n) ==
    ShufflerHead \o DigitsOf(n) \o <<")", ";">>

PoolDecls ==
    {<<>>, PoolOne, PoolTwo, PoolUnclosed}

Wrappers ==
    {<<>>, WrapperUF, WrapperUU}

CallLists ==
    {<<>>, CallF410, CallU415, CallF411 \o CallF410, CallFx \o CallU415,
     CallG410 \o CallF410}

Tails ==
    {<<>>, TailTernary, TailMap}

Sources ==
    {p \o w \o c \o t : p \in PoolDecls, w \in Wrappers, c \in CallLists, t \in Tails}
    \cup {PoolTwo \o Shuffler(1) \o w \o c : w \in Wrappers, c \in CallLists}

Init ==
    \E text \in Sources : Start(text)

Spec ==
    Init /\ [][Next]_vars

(***************************************************************************)
(* _replace_decrypted_strings called on its own: a text with one call      *)
(* site, a pool of two strings and a chain map over the wrapper names u    *)
(* and v, cyclic maps and None included.                                   *)
(***************************************************************************)
\* the offsets of the chain maps are -MaxOffset..MaxOffset
MaxOffset ==
    1

ChainNames ==
    {<<"u">>, <<"v">>}

ChainEntries ==
    [calls : ChainNames \cup {<<"f">>}, offset : (0 - MaxOffset)..MaxOffset]

ChainMaps ==
    {NoMap} \cup
    {[is_none |-> FALSE, entries |-> e] :
        e \in UNION {[S -> ChainEntries] : S \in (SUBSET ChainNames) \ {{}}}}

RawArgs ==
    {<<"4", "0", "9">>, <<"4", "1", "0">>, <<"4", "1", "1">>, <<"x">>}

\* name(raw,"key")
CallText(name, raw) ==
    name \o <<"(">> \o raw \o <<",", "\"", "k", "e", "y", "\"", ")">>

CallTexts ==
    {CallText(name, raw) : name \in ChainNames \cup {<<"f">>}, raw \in RawArgs}

\* the first string decodes (to "secret" under the key "key"), the second
\* is no base64
ChainPool ==
    <<<<"e", "A", "l", "X", "n", "0", "H", "7">>, <<"e">>>>

InitReplace ==
    \E text \in CallTexts, map \in ChainMaps :
        /\ source_code = text
        /\ pc = "scan"
        /\ strings = ChainPool
        /\ function_map = map
        /\ transformed_code = text
        /\ pos = 0
        /\ match = NoCall
        /\ index = 0
        /\ current_func = NoFunc
        /\ hops = 0
        /\ operator_map_data = NoOperatorMap
        /\ result = <<>>
        /\ rules = NoRules

SpecReplace ==
    InitReplace /\ [][ReplaceDecryptedStrings]_vars

(***************************************************************************)
(* The pool extraction and the shuffle step on a declared pool of at most  *)
(* MaxPool strings, followed by a shuffler with a literal 0..MaxShuffle or *)
(* by nothing.                                                             *)
(***************************************************************************)
MaxPool ==
    3

MaxShuffle ==
    6

PoolItems ==
    {<<"p">>, <<"q">>}

Pools ==
    UNION {[1..n -> PoolItems] : n \in 0..MaxPool}

\* "p","q",...
RECURSIVE Listed(_)
Listed(pool) ==
    IF pool = <<>> THEN <<>>
    ELSE <<"\"">> \o Head(pool) \o <<"\"">>
         \o (IF Len(pool) > 1 THEN <<",">> ELSE <<>>) \o Listed(Tail(pool))

\* const I=[...];
PoolText(pool) ==
    <<"c", "o", "n", "s", "t", " ", "I", "=", "[">> \o Listed(pool) \o <<"]", ";">>

ShuffleSources ==
    {PoolText(pool) : pool \in Pools}
    \cup {PoolText(pool) \o Shuffler(n) : pool \in Pools, n \in 0..MaxShuffle}

InitShuffle ==
    \E text \in ShuffleSources : Start(text)

NextShuffle ==
    \/ ExtractStringArray
    \/ ApplyArrayShuffling

SpecShuffle ==
    InitShuffle /\ [][NextShuffle]_vars

(***************************************************************************)
(* extract_dynamic_rules on texts of at most MaxOps statements.            *)
(***************************************************************************)
MaxOps ==
    2

\* 5%40;
Rule5 ==
    <<"5","%","4","0",";">>

\* 45 % 7;
Rule45 ==
    <<"4","5"," ","%"," ","7",";">>

\* 85%40;
Rule85 ==
    <<"8","5","%","4","0",";">>

\* 39%1;
Rule39 ==
    <<"3","9","%","1",";">>

\* 120 % 400;
Rule120 ==
    <<"1","2","0"," ","%"," ","4","0","0",";">>

\* a+3;
RulePlus ==
    <<"a","+","3",";">>

\* ["12","ff"];
RuleArray ==
    <<"[","\"","1","2","\"",",","\"","f","f","\"","]",";">>

RulePieces ==
    {Rule5, Rule45, Rule85, Rule39, Rule120, RulePlus, RuleArray}

RECURSIVE Joined(_)
Joined(pieces) ==
    IF pieces = <<>> THEN <<>> ELSE Head(pieces) \o Joined(Tail(pieces))

RuleSources ==
    {Joined(pieces) : pieces \in UNION {[1..n -> RulePieces] : n \in 0..MaxOps}}

\* dynamic_rules = extract_dynamic_rules(source_code)
ExtractDynamicRules ==
    /\ pc = "extract_dynamic_rules"
    /\ rules' = extract_dynamic_rules(source_code)
    /\ pc' = "rules_returned"
    /\ UNCHANGED <<source_code, strings, function_map, transformed_code, pos, match,
                   index, current_func, hops, operator_map_data, result>>

InitRules ==
    \E text \in RuleSources :
        /\ source_code = text
        /\ pc = "extract_dynamic_rules"
        /\ strings = <<>>
        /\ function_map = NoMap
        /\ transformed_code = <<>>
        /\ pos = 0
        /\ match = NoCall
        /\ index = 0
        /\ current_func = NoFunc
        /\ hops = 0
        /\ operator_map_data = NoOperatorMap
        /\ result = <<>>
        /\ rules = NoRules

SpecRules ==
    InitRules /\ [][ExtractDynamicRules]_vars

(***************************************************************************)
(* The two simplifier passes called on their own, each once and then again *)
(* on its own output.                                                      *)
(***************************************************************************)
Idents ==
    {<<"a">>, <<"b", "a">>, <<"c">>}

\* cond ? yes : no
Ternary(cond, yes, no) ==
    cond \o <<" ", "?", " ">> \o yes \o <<" ", ":", " ">> \o no

\* a["b"], a["b"]["c"], a["b c"], a[b]
BracketTexts ==
    {<<"a", "[", "\"", "b", "\"", "]">>,
     <<"a", "[", "\"", "b", "\"", "]", "[", "\"", "c", "\"", "]">>,
     <<"a", "[", "\"", "b", " ", "c", "\"", "]">>,
     <<"a", "[", "b", "]">>}

SimplifierInputs ==
    {Ternary(cond, yes, no) : cond \in Idents, yes \in Idents, no \in Idents}
    \cup {Ternary(cond, cond, Ternary(cond, cond, no)) :
              cond \in Idents, no \in Idents \cup {<<"b">>}}
    \cup BracketTexts

\* transformed_code = _simplify_expressions(transformed_code)
SimplifyPass ==
    /\ pc \in {"simplifier", "simplified"}
    /\ transformed_code' = _simplify_expressions(transformed_code)
    /\ pc' = IF pc = "simplifier" THEN "simplified" ELSE "simplified_again"
    /\ UNCHANGED <<rules, source_code, strings, function_map, pos, match, index,
                   current_func, hops, operator_map_data, result>>

\* transformed_code = _convert_bracket_to_dot_notation(transformed_code)
BracketPass ==
    /\ pc \in {"simplifier", "converted"}
    /\ transformed_code' = _convert_bracket_to_dot_notation(transformed_code)
    /\ pc' = IF pc = "simplifier" THEN "converted" ELSE "converted_again"
    /\ UNCHANGED <<rules, source_code, strings, function_map, pos, match, index,
                   current_func, hops, operator_map_data, result>>

InitSimplify ==
    \E text \in SimplifierInputs :
        /\ source_code = text
        /\ pc = "simplifier"
        /\ strings = <<>>
        /\ function_map = NoMap
        /\ transformed_code = text
        /\ pos = 0
        /\ match = NoCall
        /\ index = 0
        /\ current_func = NoFunc
        /\ hops = 0
        /\ operator_map_data = NoOperatorMap
        /\ result = <<>>
        /\ rules = NoRules

NextSimplify ==
    \/ SimplifyPass
    \/ BracketPass

SpecSimplify ==
    InitSimplify /\ [][NextSimplify]_vars

(***************************************************************************)
(* The claims.                                                             *)
(***************************************************************************)
\* C1: with no wrapper function declared, a pool holding the encoding of
\* "secret" under the key "key" and the call f(410,"key"), the run returns
\* the text with the call replaced by the literal "secret": it never raises,
\* and what it returns is that text.
C1_DecodesWithoutChain ==
    source_code = PoolOne \o CallF410 =>
        /\ pc # "raised"
        /\ pc = "returned" => result = PoolOne \o Secret

\* C1: the run over that text raised, at the call of f.
C1_Witness ==
    /\ source_code = PoolOne \o CallF410
    /\ pc = "raised"
    /\ match.func_name = <<"f">>

\* C2: once the pool was found, no failure of a later stage lets an
\* exception escape the run.
C2_NeverAborts ==
    pc # "raised"

\* C2: a run that found a pool of two strings and no wrapper raised at a
\* call-shaped expression g(410,"key"), an operator map still to be replaced.
C2_Witness ==
    /\ source_code = PoolTwo \o CallG410 \o CallF410 \o TailMap
    /\ Len(strings) = 2
    /\ function_map.is_none
    /\ pc = "raised"
    /\ match.func_name = <<"g">>

\* C3: the chain loop of one call site runs at most as many times as the
\* chain map has entries, cyclic maps included.
C3_ChainBounded ==
    hops <= Cardinality(DOMAIN function_map.entries)

\* C3: the chain loop has run MaxHops times over a map of one wrapper and
\* is about to run again.
C3_Witness ==
    /\ pc = "chain"
    /\ hops = MaxHops
    /\ Cardinality(DOMAIN function_map.entries) = 1
    /\ current_func.calls \in DOMAIN function_map.entries

\* no pool declaration: no match of start_pattern, or the bracket the match
\* opens is closed nowhere in the text
NoPoolDeclaration(text) ==
    LET m == Search(start_pattern, text, 0)
    IN  \/ ~m.ok
        \/ \A j \in m.end..Len(text) :
              Cardinality({x \in m.end..j : text[x] = "]"})
              # 1 + Cardinality({x \in m.end..j : text[x] = "["})

\* C4: when the text holds no pool declaration the run returns the input
\* unchanged, none of the later stages having run, and the returned text
\* holds no pool declaration either (a run on it returns it unchanged too).
C4_PoolAbsentUnchanged ==
    NoPoolDeclaration(source_code) =>
        /\ pc \in {"extract_string_array", "returned"}
        /\ strings = <<>> /\ transformed_code = <<>> /\ function_map = NoMap
        /\ pc = "returned" => result = source_code /\ NoPoolDeclaration(result)

\* C4: a run over an unclosed pool declaration followed by a wrapper, a call
\* and a ternary has returned.
C4_Witness ==
    /\ pc = "returned"
    /\ source_code = PoolUnclosed \o WrapperUF \o CallF410 \o TailTernary
    /\ NoPoolDeclaration(source_code)

\* the sum of the offsets of the wrappers on the chain from name, at most
\* fuel of them
RECURSIVE OffsetsFrom(_, _, _)
OffsetsFrom(map, name, fuel) ==
    IF name \notin DOMAIN map \/ fuel = 0 THEN 0
    ELSE map[name].offset + OffsetsFrom(map, map[name].calls, fuel - 1)

\* the chain from name leaves the map within fuel wrappers
RECURSIVE LeavesMap(_, _, _)
LeavesMap(map, name, fuel) ==
    \/ name \notin DOMAIN map
    \/ fuel > 0 /\ LeavesMap(map, map[name].calls, fuel - 1)

Acyclic(map) ==
    \A name \in DOMAIN map : LeavesMap(map, name, Cardinality(DOMAIN map))

\* C5: for an acyclic chain map, the index the chain loop ends with is the
\* raw argument minus 410 minus the offsets of the wrappers on the chain
\* from the called name.
C5_ResolvedIndex ==
    (pc = "decode" /\ Acyclic(function_map.entries)) =>
        index = int(match.index_arg).value - 410
                - OffsetsFrom(function_map.entries, match.func_name,
                              Cardinality(DOMAIN function_map.entries))

\* C5: a chain of two wrappers with offsets that do not cancel was walked.
C5_Witness ==
    /\ pc = "decode"
    /\ hops = 2
    /\ Acyclic(function_map.entries)
    /\ index # int(match.index_arg).value - 410

\* C6: a step replaces a call site only if its name is f or a key of the
\* chain map, its resolved index is in the pool and the decoding succeeds;
\* every other step that ends the examination of a call site leaves the
\* text as it was and moves the cursor to the end of the site, the scan
\* going on.
C6_ReplacedOnlyIfDecoded ==
    [][/\ (pc = "decode" /\ transformed_code' # transformed_code) =>
             /\ match.func_name = <<"f">> \/ match.func_name \in DOMAIN function_map.entries
             /\ 0 <= index /\ index < Len(strings)
             /\ Decrypted.ok
       /\ (pc = "scan" /\ NextCall.found /\ pc' \notin {"chain", "decode"}) =>
             /\ transformed_code' = transformed_code
             /\ pc' = "scan"
             /\ pos' = NextCall.end
       /\ (pc = "decode" /\ transformed_code' = transformed_code) =>
             /\ pc' = "scan"
             /\ pos' = match.end]_vars

\* C6: the run raised at a call site whose index argument is no integer,
\* a second call site after it.
C6_Witness ==
    /\ source_code = PoolOne \o CallFx \o CallU415
    /\ pc = "raised"
    /\ match.index_arg = <<"x">>
    /\ pos = 0

\* the rotation as slices: pool[k:] + pool[:k] for k = n mod len(pool)
RotSlice(pool, n) ==
    SubSeq(pool, (n % Len(pool)) + 1, Len(pool)) \o SubSeq(pool, 1, n % Len(pool))

\* C7: after the shuffle step a non-empty pool declared as pool and followed
\* by a shuffler with the literal n is pool[n mod len:] + pool[:n mod len]
\* (the declared order for n = 0 and n = len), and a pool with no shuffler is
\* in its declared order.
C7_Rotation ==
    pc = "extract_decryption_functions" =>
        \A pool \in Pools :
            /\ source_code = PoolText(pool) => strings = pool
            /\ \A n \in 0..MaxShuffle :
                  (pool # <<>> /\ source_code = PoolText(pool) \o Shuffler(n)) =>
                      /\ strings = RotSlice(pool, n)
                      /\ n \in {0, Len(pool)} => strings = pool

\* C7: the pool p, q, q was rotated by 4, once around and one more.
C7_Witness ==
    /\ pc = "extract_decryption_functions"
    /\ source_code = PoolText(<<<<"p">>, <<"q">>, <<"q">>>>) \o Shuffler(4)
    /\ strings = <<<<"q">>, <<"q">>, <<"p">>>>

\* C8: checksum_indexes is strictly ascending and each of its values is in
\* 0..39.
C8_ChecksumIndexes ==
    pc = "rules_returned" =>
        \A j \in 1..Len(rules.checksum_indexes) :
            /\ rules.checksum_indexes[j] \in 0..39
            /\ j > 1 => rules.checksum_indexes[j - 1] < rules.checksum_indexes[j]

\* C8: the left operands 39 and 45, in this order, gave the indexes 5 and 39.
C8_Witness ==
    /\ pc = "rules_returned"
    /\ source_code = Rule39 \o Rule45
    /\ rules.checksum_indexes = <<5, 39>>

\* \b(\w+)\s*\?\s*\1\s*:\s*(\w+) : a ternary whose condition, a whole
\* identifier, is also its true branch
SelfTernaryPattern ==
    <<WordBoundary>> \o TernaryPattern

\* C9: the ternary pass changes a text only if it holds a ternary whose
\* condition and true branch are the same identifier.
C9_RewritesOnlySelfTernary ==
    (pc = "simplified" /\ ~Search(SelfTernaryPattern, source_code, 0).ok) =>
        transformed_code = source_code

\* C9: ba ? a : c became ba || c.
C9_Witness ==
    /\ pc = "simplified"
    /\ source_code = Ternary(<<"b", "a">>, <<"a">>, <<"c">>)
    /\ transformed_code = <<"b", "a", " ", "|", "|", " ", "c">>

\* C10: a simplifier pass run on its own output changes nothing.
C10_Idempotent ==
    [][(pc \in {"simplified", "converted"}) => (transformed_code' = transformed_code)]_vars
\* C10: a ? a : a ? a : b became a || a ? a : b and then, on the second
\* run of the pass, a || a || b.
C10_Witness ==
    /\ pc = "simplified_again"
    /\ source_code = Ternary(<<"a">>, <<"a">>, Ternary(<<"a">>, <<"a">>, <<"b">>))
    /\ transformed_code = <<"a", " ", "|", "|", " ", "a", " ", "|", "|", " ", "b">>

\* the values d mod 40 of the occurrences `d % 40` among left, the groups of
\* the occurrences of `<digits> % <digits>`: those whose modulus is written 40
OperandsModulo40(left) ==
    {DigitsToInt(left[j][1]) % 40 :
        j \in {k \in 1..Len(left) : left[k][2] = <<"4", "0">>}}

\* C11: checksum_indexes holds the values d mod 40 of the occurrences
\* `d % 40` of the source and nothing else: an occurrence with another
\* modulus contributes nothing.
C11_OnlyModulo40 ==
    pc = "rules_returned" =>
        {rules.checksum_indexes[j] : j \in 1..Len(rules.checksum_indexes)}
        = OperandsModulo40(FindGroups(binary_op_pattern_left, source_code))

\* C11: 45 % 7 gave the index 5.
C11_Witness ==
    /\ pc = "rules_returned"
    /\ source_code = Rule45
    /\ rules.checksum_indexes = <<5>>

\* C12: while the chain map is acyclic the string pass makes monotonic
\* progress: a step that substitutes a call site restarts the scan at offset
\* 0, and a step that ends the examination of a call site without
\* substituting it goes on scanning with the cursor at the end of the site,
\* beyond where it was.
C12_MonotonicProgress ==
    [][Acyclic(function_map.entries) =>
          /\ (pc = "decode" /\ transformed_code' # transformed_code) =>
                (pc' = "scan" /\ pos' = 0)
          /\ (pc = "decode" /\ transformed_code' = transformed_code) =>
                (pc' = "scan" /\ pos' = match.end /\ pos' > pos)
          /\ (pc = "scan" /\ NextCall.found /\ pc' \notin {"chain", "decode"}) =>
                (pc' = "scan" /\ pos' = NextCall.end /\ pos' > pos)]_vars

\* C12: with no wrapper declared the run raised at the call site f(411,"key"),
\* whose index is out of the pool, the cursor still at 0 and the call site
\* f(410,"key") after it never examined.
C12_Witness ==
    /\ source_code = PoolOne \o CallF411 \o CallF410
    /\ transformed_code = source_code
    /\ function_map.is_none
    /\ pc = "raised"
    /\ match.index_arg = <<"4", "1", "1">>
    /\ pos = 0

====
